---- MODULE Spec2Model ----
(***************************************************************************)
(* A model of createFormField (packages/platform/src/lib/form-field.ts):   *)
(* the value cell, the dirty/touched state machine, the dirty-tracking     *)
(* effect with its previousValue closure variable, the three config-flag   *)
(* effects, the reset protocol with its single callback slot, and the      *)
(* derived validation views.                                               *)
(*                                                                         *)
(* Reactive runtime: a signal write that changes the stored value marks    *)
(* every effect and computed that read the signal as stale; a write of the *)
(* value already stored notifies nobody.  Effects never run inside the     *)
(* operation that made them stale: they run later, one at a time, when the *)
(* runtime flushes them.  A computed is re-evaluated on the first read     *)
(* after it became stale.                                                  *)
(***************************************************************************)
EXTENDS Integers, Sequences, FiniteSets, TLC

\* ---------------------------------------------------------------- bounds
MaxValue == 2
MaxFns == 2

\* ------------------------------------------------------------- constants
\* The JavaScript value `undefined`, encoded as 0: it is a legal field value
\* (Value is caller-generic) and the initial content of previousValue.
Undefined == 0
\* The callback slot's initial content, (_value) => {}.
NoOp == 0

Values == 0..MaxValue
Fns == 1..MaxFns
Flags == {"hidden", "disabled", "readOnly"}

VARIABLES
    value,              \* valueSignal
    source,             \* the caller-owned signal passed as value, when shared
    initialValue,       \* what the value argument held when the field was built
    defaultValue,       \* const defaultValue
    shared,             \* TRUE iff the field was built from a caller-owned signal
    touchedState,       \* touchedStateSignal
    dirtyState,         \* dirtyStateSignal
    previousValue,      \* let previousValue
    dirtyEffectPending, \* the dirty-tracking effect is stale and scheduled
    onReset,            \* let onReset
    resetCalls,         \* callback invocations made by the latest operation
    validators,         \* finalOptions.validators
    validMemo,          \* validSignal's memo: [stale, value]
    flagPredicates,     \* the flags for which finalOptions holds a predicate
    flagCell,           \* the external cell the predicates read
    flag,               \* hiddenSignal, disabledSignal, readOnlySignal
    flagEffectPending,  \* per flag: its effect is stale and scheduled
    epochBaseline,      \* history: the value observed in this dirty epoch, if any
    quietSinceReset,    \* history: a reset happened, no write or markAsDirty since
    lastRegistered,     \* history: the argument of the latest registerOnReset
    slotReplaced,       \* history: a registration replaced a different function
    dirtyTransitions,   \* history: PRISTINE -> DIRTY steps in this dirty epoch
    twin                \* a second field, constructed afresh at each reset

coreVars == <<value, source, touchedState, dirtyState, previousValue,
              dirtyEffectPending>>
configVars == <<initialValue, defaultValue, shared, validators, flagPredicates>>
flagVars == <<flagCell, flag, flagEffectPending>>
historyVars == <<epochBaseline, quietSinceReset, lastRegistered, slotReplaced,
                 dirtyTransitions>>
fieldVars == <<coreVars, configVars, flagVars, historyVars, onReset, resetCalls,
               validMemo>>
vars == <<fieldVars, twin>>


\* ------------------------------------------------- validation collaborator
\* ./validation is not part of the sources at hand: the pipeline below follows
\* the specification's contract for it (sections 4.2 and 6).  A validator
\* yields, for a value, a state and, when INVALID, one error entry.
ValidatorIds == 1..4
ValidatorKey(id) ==
    CASE id = 1 -> "required"
      [] id = 2 -> "custom"
      [] id = 3 -> "unique"
      [] id = 4 -> "custom"
\* The message/payload a validator reports: "" is an empty (falsy) message.
ValidatorMessage(id) ==
    CASE id = 1 -> "required"
      [] id = 2 -> ""
      [] id = 3 -> "taken"
      [] id = 4 -> "odd"
ValidatorState(id, v) ==
    CASE id = 1 -> IF v = Undefined THEN "INVALID" ELSE "VALID"
      [] id = 2 -> IF v = 1 THEN "INVALID" ELSE "VALID"
      [] id = 3 -> IF v = 2 THEN "PENDING" ELSE "VALID"
      [] id = 4 -> IF v % 2 = 1 THEN "INVALID" ELSE "VALID"

\* The constructions considered: whether the value argument is a caller-owned
\* signal, the validator list, and the flags given a predicate.
FieldConfigs ==
    { [shared |-> FALSE, validators |-> <<>>,     flagPredicates |-> {}],
      [shared |-> TRUE,  validators |-> <<1, 3>>, flagPredicates |-> {}],
      [shared |-> FALSE, validators |-> <<2, 4>>, flagPredicates |-> {"disabled"}],
      [shared |-> FALSE, validators |-> <<4, 2>>, flagPredicates |-> {}],
      [shared |-> TRUE,  validators |-> <<>>,     flagPredicates |-> {"hidden", "readOnly"}] }

\* computeValidateState: one snapshot entry per configured validator.
computeValidateState(vs, v) ==
    [i \in 1..Len(vs) |->
        [key |-> ValidatorKey(vs[i]), message |-> ValidatorMessage(vs[i]),
         state |-> ValidatorState(vs[i], v)]]

\* computeErrorsArray: the INVALID entries, in validator order.
computeErrorsArray(snapshot) ==
    SelectSeq(snapshot, LAMBDA e : e.state = "INVALID")

\* computeErrors: key -> message/payload over the INVALID entries; a later
\* entry with the same key overwrites an earlier one (object spread).
computeErrors(snapshot) ==
    LET arr == computeErrorsArray(snapshot)
        keys == {arr[i].key : i \in 1..Len(arr)}
        last(k) == CHOOSE i \in 1..Len(arr) :
                      /\ arr[i].key = k
                      /\ \A j \in 1..Len(arr) : arr[j].key = k => j <= i
    IN [k \in keys |-> arr[last(k)].message]

\* computeState: INVALID if any entry is, else PENDING if any is, else VALID.
computeState(snapshot) ==
    IF \E i \in 1..Len(snapshot) : snapshot[i].state = "INVALID" THEN "INVALID"
    ELSE IF \E i \in 1..Len(snapshot) : snapshot[i].state = "PENDING" THEN "PENDING"
    ELSE "VALID"

\* The derived views as a caller reads them now.
validateStateSignal == computeValidateState(validators, value)
errorsSignal == computeErrors(validateStateSignal)
errorsArraySignal == computeErrorsArray(validateStateSignal)
stateSignal == computeState(validateStateSignal)

\* A JavaScript payload converted to boolean: the empty string is falsy.
Truthy(payload) == payload # ""

\* ---------------------------------------------------------- derived views
\* Variant: valid taken to mean "not INVALID".
validComputeNotInvalid == stateSignal # "INVALID"

\* computed(() => stateSignal() === 'VALID'): the expression ...
validCompute == stateSignal = "VALID"
\* ... and what a read of validSignal returns: the memo unless it is stale.
valid == IF validMemo.stale THEN validCompute ELSE validMemo.value

touched == touchedState = "TOUCHED"
dirty == dirtyState = "DIRTY"

\* hasError: !!errorsSignal()[errorKey]; a missing key reads as undefined.
hasError(errorKey) ==
    IF errorKey \in DOMAIN errorsSignal THEN Truthy(errorsSignal[errorKey])
    ELSE FALSE

ErrorKeys == {"required", "custom", "unique", "absent"}

\* Array.prototype.find: the first element, in list order, that satisfies the
\* test, as [found, entry]; found is FALSE when the list is exhausted.
RECURSIVE ArrayFind(_, _)
ArrayFind(arr, errorKey) ==
    IF arr = <<>> THEN [found |-> FALSE, entry |-> [key |-> "", message |-> ""]]
    ELSE IF Head(arr).key = errorKey
         THEN [found |-> TRUE, entry |-> [key |-> Head(arr).key,
                                          message |-> Head(arr).message]]
         ELSE ArrayFind(Tail(arr), errorKey)

\* Variant: the last matching element instead of the first (findLast).
RECURSIVE ArrayFindLast(_, _)
ArrayFindLast(arr, errorKey) ==
    IF arr = <<>> THEN [found |-> FALSE, entry |-> [key |-> "", message |-> ""]]
    ELSE IF arr[Len(arr)].key = errorKey
         THEN [found |-> TRUE, entry |-> [key |-> arr[Len(arr)].key,
                                          message |-> arr[Len(arr)].message]]
         ELSE ArrayFindLast(SubSeq(arr, 1, Len(arr) - 1), errorKey)

\* Variant of errorMessage that reads the message of the last matching entry.
errorMessageOfLast(errorKey) ==
    LET hit == ArrayFindLast(errorsArraySignal, errorKey)
    IN IF hit.found THEN [present |-> TRUE, message |-> hit.entry.message]
       ELSE [present |-> FALSE, message |-> ""]

\* errorMessage: errorsArraySignal().find(e => e.key === errorKey)?.message.
\* The optional chaining yields undefined (present = FALSE) when find found
\* nothing; nothing is thrown on either path.
errorMessage(errorKey) ==
    LET hit == ArrayFind(errorsArraySignal, errorKey)
    IN IF hit.found THEN [present |-> TRUE, message |-> hit.entry.message]
       ELSE [present |-> FALSE, message |-> ""]


\* ------------------------------------------------------------ construction
\* A field as createFormField returns it, before the runtime has run any
\* effect: every effect it created is scheduled for its first run.
FreshField(v) ==
    [value |-> v, touchedState |-> "UNTOUCHED", dirtyState |-> "PRISTINE",
     previousValue |-> Undefined, dirtyEffectPending |-> TRUE]

NoTwin == [live |-> FALSE, field |-> FreshField(Undefined)]

\* Variant: defaultValue is a live reference to the value cell, read at reset.
DefaultValueLive == value

\* const defaultValue = isSignal(value) ? value() : value, evaluated once in
\* createFormField: the literal, or the content of the signal at that time.
DefaultValueRead == defaultValue

\* Variant: the field wraps the content of a passed signal in a cell of its own.
ValueSignalIsCopy == FALSE

\* valueSignal = isSignal(value) ? value : signal(value): for a passed signal
\* the field's value cell is that very signal, not a copy of it.
ValueSignalIsSource == shared

\* createFormField has no throw statement: whatever the value argument holds,
\* undefined (an omitted argument) included, it returns a field.
ConstructionOutcome(v) == "field"

\* The state createFormField(value, options) returns, for a construction c.
Constructed(c) ==
    /\ initialValue \in Values
    /\ ConstructionOutcome(initialValue) = "field"
    /\ value = initialValue
    /\ source = IF c.shared THEN initialValue ELSE Undefined
    /\ defaultValue = initialValue
    /\ shared = c.shared
    /\ validators = c.validators
    /\ flagPredicates = c.flagPredicates
    /\ touchedState = FreshField(value).touchedState
    /\ dirtyState = FreshField(value).dirtyState
    /\ previousValue = FreshField(value).previousValue
    /\ dirtyEffectPending = FreshField(value).dirtyEffectPending
    /\ onReset = NoOp
    /\ resetCalls = <<>>
    /\ validMemo = [stale |-> TRUE, value |-> FALSE]
    /\ flagCell = FALSE
    /\ flag = [f \in Flags |-> FALSE]
    /\ flagEffectPending = [f \in Flags |-> f \in flagPredicates]
    /\ epochBaseline = [set |-> FALSE, value |-> Undefined]
    /\ quietSinceReset = FALSE
    /\ lastRegistered = NoOp
    /\ slotReplaced = FALSE
    /\ dirtyTransitions = 0
    /\ twin = NoTwin

Init == \E c \in FieldConfigs : Constructed(c)

\* ------------------------------------------------------------ value writes
\* WritableSignal.set on the value cell: a field record after writing v.
\* Only a changed value notifies the dirty-tracking effect.
SignalSetValue(f, v) ==
    [f EXCEPT !.value = v,
              !.dirtyEffectPending = f.dirtyEffectPending \/ (v # f.value)]

\* validSignal depends on the value cell through the validation pipeline.
MemoAfterValueSet(old, new) ==
    IF new # old THEN [validMemo EXCEPT !.stale = TRUE] ELSE validMemo

CoreField ==
    [value |-> value, touchedState |-> touchedState, dirtyState |-> dirtyState,
     previousValue |-> previousValue, dirtyEffectPending |-> dirtyEffectPending]

\* The core variables take the content of a field record.
StoreField(f) ==
    /\ value' = f.value
    /\ touchedState' = f.touchedState
    /\ dirtyState' = f.dirtyState
    /\ previousValue' = f.previousValue
    /\ dirtyEffectPending' = f.dirtyEffectPending

\* History: the count of PRISTINE -> DIRTY steps, when the field becomes f.
CountTransition(f) ==
    IF dirtyState = "PRISTINE" /\ f.dirtyState = "DIRTY" /\ dirtyTransitions < 2
    THEN dirtyTransitions + 1 ELSE dirtyTransitions

\* What field.value.set(v) leaves: the field's cell is written, and with it
\* the caller's signal when the two are one cell.
AfterFieldSet(v) ==
    [field |-> SignalSetValue(CoreField, v),
     source |-> IF ValueSignalIsSource THEN v ELSE source,
     memo |-> MemoAfterValueSet(value, v)]

\* What a set(v) on the caller's signal leaves: the field's cell is written
\* when the two are one cell.
AfterSourceSet(v) ==
    IF ValueSignalIsSource
    THEN [field |-> SignalSetValue(CoreField, v), source |-> v,
          memo |-> MemoAfterValueSet(value, v)]
    ELSE [field |-> CoreField, source |-> v, memo |-> validMemo]

\* A write of the value, by either writer, that leaves `after`.
SetValueStep(after) ==
    /\ StoreField(after.field)
    /\ source' = after.source
    /\ validMemo' = after.memo
    /\ resetCalls' = <<>>
    /\ quietSinceReset' = FALSE
    /\ UNCHANGED <<configVars, flagVars, onReset, epochBaseline, lastRegistered,
                   slotReplaced, dirtyTransitions>>

\* valueSignal.set(v) through the field.
SetValueOp(v) == SetValueStep(AfterFieldSet(v))

\* field.value.set(v), by a caller holding the field.
WriteValue(v) == SetValueOp(v) /\ UNCHANGED twin

\* The owner of a shared signal writes it directly.
ExternalWrite(v) == shared /\ SetValueStep(AfterSourceSet(v)) /\ UNCHANGED twin

\* ---------------------------------------------------- dirty-tracking effect
\* Variant: the effect writes DIRTY or PRISTINE according to the comparison.
DirtyEffectBodyTracksEquality(f) ==
    [f EXCEPT !.dirtyState = IF f.previousValue # Undefined /\ f.value # f.previousValue
                             THEN "DIRTY" ELSE "PRISTINE",
              !.previousValue = f.value,
              !.dirtyEffectPending = FALSE]

\* Variant: the effect also reads dirtyStateSignal, so that its own write of
\* DIRTY makes it stale again.
DirtyEffectBodyRetriggers(f) ==
    LET ds == IF f.previousValue # Undefined /\ f.value # f.previousValue
              THEN "DIRTY" ELSE f.dirtyState
    IN [f EXCEPT !.dirtyState = ds,
                 !.previousValue = f.value,
                 !.dirtyEffectPending = (ds # f.dirtyState)]

\* One run of the effect body on a field record.
DirtyEffectBody(f) ==
    LET newValue == f.value
        ds == IF f.previousValue # Undefined /\ newValue # f.previousValue
              THEN "DIRTY" ELSE f.dirtyState
    IN [f EXCEPT !.dirtyState = ds,
                 !.previousValue = newValue,
                 !.dirtyEffectPending = FALSE]

RunDirtyEffectOp ==
    /\ dirtyEffectPending
    /\ StoreField(DirtyEffectBody(CoreField))
    /\ source' = source
    /\ epochBaseline' = [set |-> TRUE, value |-> value]
    /\ dirtyTransitions' = CountTransition(DirtyEffectBody(CoreField))
    /\ resetCalls' = <<>>
    /\ UNCHANGED <<configVars, flagVars, onReset, validMemo, quietSinceReset,
                   lastRegistered, slotReplaced>>

RunDirtyEffect == RunDirtyEffectOp /\ UNCHANGED twin

\* ------------------------------------------------------------ marking calls
\* Variant: markAsDirty also marks the field touched.
MarkDirtyBodyAlsoTouches(f) ==
    [f EXCEPT !.dirtyState = "DIRTY", !.touchedState = "TOUCHED"]

MarkTouchedBody(f) == [f EXCEPT !.touchedState = "TOUCHED"]
MarkDirtyBody(f) == [f EXCEPT !.dirtyState = "DIRTY"]

markAsTouchedOp ==
    /\ StoreField(MarkTouchedBody(CoreField))
    /\ source' = source
    /\ resetCalls' = <<>>
    /\ UNCHANGED <<configVars, flagVars, onReset, validMemo, historyVars>>

markAsTouched == markAsTouchedOp /\ UNCHANGED twin

markAsDirtyOp ==
    /\ StoreField(MarkDirtyBody(CoreField))
    /\ source' = source
    /\ dirtyTransitions' = CountTransition(MarkDirtyBody(CoreField))
    /\ resetCalls' = <<>>
    /\ quietSinceReset' = FALSE
    /\ UNCHANGED <<configVars, flagVars, onReset, validMemo, epochBaseline,
                   lastRegistered, slotReplaced>>

markAsDirty == markAsDirtyOp /\ UNCHANGED twin

\* ------------------------------------------------------------------- reset
\* Variant: a registered callback is kept, later registrations are dropped.
RegisterSlotFirstWins(slot, fn) == IF slot = NoOp THEN fn ELSE slot

\* registerOnReset: (onReset = fn), the slot's content after the assignment.
RegisterSlot(slot, fn) == fn

registerOnReset(fn) ==
    /\ onReset' = RegisterSlot(onReset, fn)
    /\ lastRegistered' = fn
    /\ slotReplaced' = (lastRegistered # NoOp /\ lastRegistered # fn)
    /\ resetCalls' = <<>>
    /\ UNCHANGED <<coreVars, configVars, flagVars, validMemo, epochBaseline,
                   quietSinceReset, dirtyTransitions, twin>>

\* Variant: reset forgets to restore touchedState.
ResetBodySkipsTouched ==
    <<"valueSignal.set", "dirtyStateSignal.set", "onReset">>

\* Variant: reset calls the callback before restoring touched and dirty.
ResetBodyCallbackFirst ==
    <<"valueSignal.set", "onReset", "touchedStateSignal.set", "dirtyStateSignal.set">>

\* The statements of reset's body, in program order.
ResetBody ==
    <<"valueSignal.set", "touchedStateSignal.set", "dirtyStateSignal.set", "onReset">>

\* One statement of reset on [field, calls].  The callback is caller code the
\* field does not know: its invocation is recorded with its argument and with
\* what the field's value, touched and dirty read at that moment.
ResetStatement(st, stmt) ==
    CASE stmt = "valueSignal.set" ->
            [st EXCEPT !.field = SignalSetValue(st.field, DefaultValueRead)]
      [] stmt = "touchedStateSignal.set" ->
            [st EXCEPT !.field.touchedState = "UNTOUCHED"]
      [] stmt = "dirtyStateSignal.set" ->
            [st EXCEPT !.field.dirtyState = "PRISTINE"]
      [] stmt = "onReset" ->
            [st EXCEPT !.calls = Append(st.calls,
                [fn |-> onReset, arg |-> DefaultValueRead,
                 value |-> st.field.value,
                 touched |-> st.field.touchedState = "TOUCHED",
                 dirty |-> st.field.dirtyState = "DIRTY"])]

RECURSIVE RunStatements(_, _)
RunStatements(st, body) ==
    IF body = <<>> THEN st
    ELSE RunStatements(ResetStatement(st, Head(body)), Tail(body))

ResetResult == RunStatements([field |-> CoreField, calls |-> <<>>], ResetBody)

resetOp ==
    /\ StoreField(ResetResult.field)
    /\ source' = IF ValueSignalIsSource THEN ResetResult.field.value ELSE source
    /\ resetCalls' = ResetResult.calls
    /\ validMemo' = MemoAfterValueSet(value, ResetResult.field.value)
    /\ epochBaseline' = [set |-> FALSE, value |-> Undefined]
    /\ quietSinceReset' = TRUE
    /\ dirtyTransitions' = 0
    /\ UNCHANGED <<configVars, flagVars, onReset, lastRegistered, slotReplaced>>

reset == resetOp /\ UNCHANGED twin

\* ------------------------------------------------------------ reads of valid
\* A caller reads field.valid(): a stale memo is recomputed and kept.
ReadValid ==
    /\ validMemo.stale
    /\ validMemo' = [stale |-> FALSE, value |-> validCompute]
    /\ resetCalls' = <<>>
    /\ UNCHANGED <<coreVars, configVars, flagVars, onReset, historyVars, twin>>

\* ------------------------------------------------------------- config flags
\* The caller's predicates: each reads the external cell.
FlagPredicate(f) == IF f = "readOnly" THEN ~flagCell ELSE flagCell

\* Variant: the flag is set to whether a predicate exists, not to its result.
FlagEffectBodyIgnoresResult(f) == [flag EXCEPT ![f] = TRUE]

\* Variant: every effect writes hiddenSignal (a copied block left unadapted).
FlagEffectBodyWritesHidden(f) == [flag EXCEPT !["hidden"] = FlagPredicate(f)]

\* Variant: one effect re-evaluates all the predicates and writes all flags.
FlagEffectBodyWritesAll(f) ==
    [g \in Flags |-> IF g \in flagPredicates THEN FlagPredicate(g) ELSE flag[g]]

\* One run of flag f's effect: <flag>Signal.set(finalOptions.<flag>()).
FlagEffectBody(f) == [flag EXCEPT ![f] = FlagPredicate(f)]

RunFlagEffect(f) ==
    /\ f \in flagPredicates
    /\ flagEffectPending[f]
    /\ flag' = FlagEffectBody(f)
    /\ flagEffectPending' = [flagEffectPending EXCEPT ![f] = FALSE]
    /\ resetCalls' = <<>>
    /\ UNCHANGED <<coreVars, configVars, flagCell, onReset, validMemo, historyVars, twin>>

\* The owner of the external cell flips it: every effect whose predicate
\* read it becomes stale.
FlipFlagCell ==
    /\ flagPredicates # {}
    /\ flagCell' = ~flagCell
    /\ flagEffectPending' = [f \in Flags |-> f \in flagPredicates]
    /\ resetCalls' = <<>>
    /\ UNCHANGED <<coreVars, configVars, flag, onReset, validMemo, historyVars, twin>>

\* ------------------------------------------------------------ specification
Next ==
    \/ \E v \in Values : WriteValue(v)
    \/ \E v \in Values : ExternalWrite(v)
    \/ RunDirtyEffect
    \/ markAsTouched
    \/ markAsDirty
    \/ \E fn \in Fns : registerOnReset(fn)
    \/ reset
    \/ ReadValid
    \/ \E f \in Flags : RunFlagEffect(f)
    \/ FlipFlagCell

Spec == Init /\ [][Next]_vars

\* ------------------------------------------------ scheduling of the effects
\* The runtime flushes every scheduled effect: an effect that is stale runs.
\* The fields considered are those with flag predicates; the caller writes,
\* marks and resets, the owner of the external cell flips it.
InitFair == \E c \in {k \in FieldConfigs : k.flagPredicates # {}} : Constructed(c)

NextFair ==
    \/ \E v \in Values : WriteValue(v)
    \/ RunDirtyEffect
    \/ markAsTouched
    \/ markAsDirty
    \/ reset
    \/ \E f \in Flags : RunFlagEffect(f)
    \/ FlipFlagCell

EffectsFlushed ==
    /\ WF_vars(RunDirtyEffect)
    /\ \A f \in Flags : WF_vars(RunFlagEffect(f))

SpecFair == InitFair /\ [][NextFair]_vars /\ EffectsFlushed

\* A call on the field or a change of the external cell.
CallerStep ==
    \/ \E v \in Values : WriteValue(v)
    \/ markAsTouched
    \/ markAsDirty
    \/ reset
    \/ FlipFlagCell

\* No effect is scheduled.
Quiescent == ~dirtyEffectPending /\ \A f \in Flags : ~flagEffectPending[f]

\* ------------------------------------------- a reset field beside a fresh one
\* The field and, from its first reset on, a twin: at each reset of the field
\* the twin is constructed afresh from the same defaultValue; from then on
\* both receive the same calls, and the runtime flushes their stale effects
\* together.
LiveTwin(f) == [live |-> TRUE, field |-> f]
OnTwin(f) == IF twin.live THEN LiveTwin(f) ELSE twin

TwinWriteValue(v) ==
    /\ SetValueOp(v)
    /\ twin' = OnTwin(SignalSetValue(twin.field, v))

TwinRunDirtyEffects ==
    /\ dirtyEffectPending \/ (twin.live /\ twin.field.dirtyEffectPending)
    /\ IF dirtyEffectPending THEN RunDirtyEffectOp ELSE UNCHANGED fieldVars
    /\ twin' = IF twin.field.dirtyEffectPending
               THEN OnTwin(DirtyEffectBody(twin.field)) ELSE twin

TwinMarkAsTouched ==
    /\ markAsTouchedOp
    /\ twin' = OnTwin(MarkTouchedBody(twin.field))

TwinMarkAsDirty ==
    /\ markAsDirtyOp
    /\ twin' = OnTwin(MarkDirtyBody(twin.field))

TwinReset ==
    /\ resetOp
    /\ twin' = LiveTwin(FreshField(defaultValue))

InitTwin == Constructed([shared |-> FALSE, validators |-> <<>>, flagPredicates |-> {}])

NextTwin ==
    \/ \E v \in Values : TwinWriteValue(v)
    \/ TwinRunDirtyEffects
    \/ TwinMarkAsTouched
    \/ TwinMarkAsDirty
    \/ TwinReset

SpecTwin == InitTwin /\ [][NextTwin]_vars


\* ================================================================== claims

\* C1: when reset() returns, the field has value = defaultValue, dirty = false
\* (dirtyState PRISTINE) and touched = false (touchedState UNTOUCHED), whatever
\* the state it was called in.
C1_ResetRestoresState ==
    [][reset => /\ value' = defaultValue
                /\ dirtyState' = "PRISTINE" /\ ~dirty'
                /\ touchedState' = "UNTOUCHED" /\ ~touched']_vars

\* reset has just returned on a field whose observer had recorded a value
\* other than defaultValue.
C1_Witness ==
    /\ resetCalls # <<>>
    /\ previousValue # Undefined /\ previousValue # defaultValue
    /\ value = defaultValue /\ ~dirty /\ ~touched

\* C2: after a reset that no value write and no markAsDirty follows, every run
\* of the dirty-tracking observer leaves dirtyState PRISTINE and touched false
\* unchanged.
C2_ResetCausesNoDirtyTransition ==
    [][(quietSinceReset /\ RunDirtyEffect)
          => (dirtyState' = "PRISTINE" /\ touchedState' = touchedState)]_vars

\* C3: from its reset on, the field's dirty and touched equal those of a field
\* freshly constructed with the same defaultValue that receives the same
\* writes, marks and observer flushes.
C3_ResetFieldEqualsFreshField ==
    twin.live => /\ dirty = (twin.field.dirtyState = "DIRTY")
                 /\ touched = (twin.field.touchedState = "TOUCHED")

\* C4: a run of the dirty-tracking observer makes the field dirty exactly when
\* a value was already observed in this dirty epoch (since construction or the
\* last reset) and the value now observed differs from it; the first
\* observation of an epoch only records the baseline.
C4_DirtyExactlyOnObservedChange ==
    [][RunDirtyEffect
          => ((dirtyState' = "DIRTY")
                <=> (dirtyState = "DIRTY"
                       \/ (epochBaseline.set /\ value # epochBaseline.value)))]_vars

\* C5: only reset takes dirtyState from DIRTY to PRISTINE, and between two
\* resets the PRISTINE -> DIRTY step happens at most once.
C5_DirtyClearedOnlyByReset ==
    /\ [][(dirtyState = "DIRTY" /\ dirtyState' = "PRISTINE") => reset]_vars
    /\ [](dirtyTransitions <= 1)

\* A field that became dirty once in this epoch and whose value was then
\* written back to defaultValue and observed: it is still dirty.
C5_Witness ==
    /\ dirty /\ dirtyTransitions = 1
    /\ value = defaultValue /\ ~dirtyEffectPending
    /\ epochBaseline.set /\ epochBaseline.value = defaultValue
    /\ ~quietSinceReset

\* C6: touchedState changes only in markAsTouched (to TOUCHED, always) and in
\* reset (to UNTOUCHED); value writes, observer runs, markAsDirty and flag
\* observer runs leave it as it is.
C6_TouchedChangedOnlyByMarkAndReset ==
    /\ [][markAsTouched => touchedState' = "TOUCHED"]_vars
    /\ [][touchedState' # touchedState
            => \/ (markAsTouched /\ touchedState' = "TOUCHED")
               \/ (reset /\ touchedState' = "UNTOUCHED")]_vars

\* A touched field whose value was changed and observed afterwards, with a
\* flag observer having run: it is still touched.
C6_Witness ==
    /\ touched /\ dirty
    /\ value # defaultValue /\ ~dirtyEffectPending /\ previousValue = value
    /\ flag["disabled"]

\* C7: each reset invokes the callback exactly once, with defaultValue, and
\* the callback reads value = defaultValue, touched = false, dirty = false.
C7_CallbackOnceAfterRestore ==
    [][reset => /\ Len(resetCalls') = 1
                /\ resetCalls'[1].arg = defaultValue
                /\ resetCalls'[1].value = defaultValue
                /\ ~resetCalls'[1].touched
                /\ ~resetCalls'[1].dirty]_vars

\* A registered callback has just been invoked by a reset of a field whose
\* observer had recorded another value than defaultValue.
C7_Witness ==
    /\ Len(resetCalls) = 1 /\ resetCalls[1].fn \in Fns
    /\ previousValue # Undefined /\ previousValue # defaultValue
    /\ dirtyEffectPending

\* C8: reset invokes exactly the function of the latest registerOnReset call,
\* and the initial no-op when there was none.
C8_LastRegistrationWins ==
    [][reset => /\ Len(resetCalls') = 1
                /\ resetCalls'[1].fn = lastRegistered]_vars

\* A reset has just invoked a callback that had replaced another one.
C8_Witness ==
    /\ Len(resetCalls) = 1
    /\ slotReplaced /\ resetCalls[1].fn = lastRegistered

\* C9: a read of valid returns true exactly when the validation state is
\* VALID.
C9_ValidIffStateValid == valid <=> (stateSignal = "VALID")

\* valid was read (the memo is fresh) on a dirty, touched field whose state is
\* PENDING, and reads false.
C9_Witness ==
    /\ ~validMemo.stale /\ stateSignal = "PENDING" /\ ~valid
    /\ dirty /\ touched

\* C10: hasError(k) is true exactly when the errors mapping contains the key k.
C10_HasErrorIffKeyPresent ==
    \A k \in ErrorKeys : hasError(k) <=> (k \in DOMAIN errorsSignal)


\* C11: errorMessage(k) returns the message of the first entry of errorsArray,
\* in list order, whose key is k, and the absent result when no entry has
\* that key.
C11_ErrorMessageOfFirstEntry ==
    \A k \in ErrorKeys :
        LET arr == errorsArraySignal
            hits == {i \in 1..Len(arr) : arr[i].key = k}
        IN IF hits = {}
           THEN ~errorMessage(k).present
           ELSE \E i \in hits :
                   /\ \A j \in hits : i <= j
                   /\ errorMessage(k).present
                   /\ errorMessage(k).message = arr[i].message

\* errorsArray holds two entries with the same key and different messages,
\* and a key that no entry has is asked for as well.
C11_Witness ==
    /\ Len(errorsArraySignal) = 2
    /\ errorsArraySignal[1].key = errorsArraySignal[2].key
    /\ errorsArraySignal[1].message # errorsArraySignal[2].message
    /\ errorMessage(errorsArraySignal[1].key).message = errorsArraySignal[1].message
    /\ ~errorMessage("absent").present


\* C12: for a flag constructed with a predicate that reads the external cell,
\* whatever the cell is changed to, the flag eventually holds the predicate's
\* current result, the effects being flushed; no call on the field is needed.
C12_FlagFollowsPredicate ==
    \A f \in Flags :
        (f \in flagPredicates) ~> (f \in flagPredicates /\ flag[f] = FlagPredicate(f))

\* The external cell was flipped to true and disabled, constructed with a
\* predicate, has become true on a field nobody called.
C12_Witness ==
    /\ "disabled" \in flagPredicates
    /\ flagCell /\ flag["disabled"] /\ ~flagEffectPending["disabled"]
    /\ value = defaultValue /\ ~dirty /\ ~touched /\ ~quietSinceReset
    /\ ~epochBaseline.set

\* C13: a flag constructed without a predicate is false in every reachable
\* state.
C13_FlagWithoutPredicateIsFalse ==
    \A f \in Flags \ flagPredicates : ~flag[f]

\* Another flag's predicate was re-evaluated to true, the field was written,
\* marked and reset, and the flag without a predicate is still false.
C13_Witness ==
    /\ "disabled" \notin flagPredicates /\ ~flag["disabled"]
    /\ flag["hidden"] /\ touched /\ dirty /\ quietSinceReset

\* C18: a run of one flag's observer writes that flag only: the other two
\* flags, whether their observers are scheduled, the value, dirtyState and
\* touchedState are as before.
C18_FlagEffectsIndependent ==
    [][\A f \in Flags :
          RunFlagEffect(f)
             => /\ \A g \in Flags \ {f} :
                      /\ flag'[g] = flag[g]
                      /\ flagEffectPending'[g] = flagEffectPending[g]
                /\ flag'[f] = FlagPredicate(f)
                /\ value' = value
                /\ dirtyState' = dirtyState
                /\ touchedState' = touchedState]_vars

\* hidden's observer has run after a flip of the cell while readOnly's is
\* still scheduled and readOnly still holds its old value.
C18_Witness ==
    /\ {"hidden", "readOnly"} \subseteq flagPredicates
    /\ flagCell /\ flag["hidden"] /\ ~flagEffectPending["hidden"]
    /\ flagEffectPending["readOnly"] /\ flag["readOnly"] # FlagPredicate("readOnly")


\* C14: on a field built from a caller-owned signal, a write through that
\* signal and the same write through the field's value accessor leave the
\* same value, dirty-tracking state, touched state and validation inputs, in
\* every reachable state; the signal and the field's value are one cell.
C14_WriterIdentityIrrelevant ==
    shared => /\ source = value
              /\ \A v \in Values : AfterSourceSet(v) = AfterFieldSet(v)

\* A write made through the caller's signal was observed and made the field
\* dirty.
C14_Witness ==
    /\ shared /\ source = value /\ value # defaultValue
    /\ dirty /\ ~dirtyEffectPending /\ previousValue = value
    /\ dirtyTransitions = 1 /\ ~quietSinceReset

\* C15: defaultValue is what the value argument held at construction (the
\* literal, or the signal's content then), it never changes, and every reset
\* restores it and passes it to the callback, whatever was written since by
\* either writer.
C15_DefaultValueFixed ==
    /\ [](defaultValue = initialValue)
    /\ [][defaultValue' = defaultValue]_vars
    /\ [][reset => /\ value' = initialValue
                   /\ Len(resetCalls') = 1
                   /\ resetCalls'[1].arg = initialValue]_vars

\* A field built from a signal that was written since has just been reset: the
\* callback got the content the signal had at construction.
C15_Witness ==
    /\ shared /\ Len(resetCalls) = 1 /\ resetCalls[1].arg = initialValue
    /\ resetCalls[1].fn \in Fns
    /\ previousValue # Undefined /\ previousValue # initialValue
    /\ value = initialValue /\ source = initialValue

\* C16: constructing a field whose value argument is absent (undefined) ends
\* in an error; no field is produced.
C16_AbsentValueFailsConstruction ==
    initialValue = Undefined => ConstructionOutcome(initialValue) = "error"

\* C17: when the observer has recorded a value in this epoch, undefined
\* included, and now observes a different one, dirtyState becomes DIRTY.
C17_RecordedValueIsABaseline ==
    [][(RunDirtyEffect /\ epochBaseline.set /\ value # epochBaseline.value)
          => dirtyState' = "DIRTY"]_vars

\* C19: an observer run that sees the value it recorded before (written away
\* and back in between), or that is the first of its epoch, does not change
\* dirtyState.
C19_DirtyDependsOnObservedValues ==
    [][(RunDirtyEffect /\ (~epochBaseline.set \/ value = epochBaseline.value))
          => dirtyState' = dirtyState]_vars

\* C20: a run of the dirty-tracking observer leaves it unscheduled, it gets
\* scheduled only by a change of the value, and once the calls on the field
\* and the changes of the external cell stop, a state with no scheduled
\* observer is reached and kept.
C20_PropagationQuiesces ==
    /\ [][RunDirtyEffect => ~dirtyEffectPending']_vars
    /\ [][(~dirtyEffectPending /\ dirtyEffectPending') => value' # value]_vars
    /\ ([]<><<CallerStep>>_vars \/ <>[]Quiescent)

\* After a write that made it dirty, a reset and a further write, the field
\* has no scheduled observer left.
C20_Witness ==
    /\ Quiescent /\ dirty /\ value # defaultValue /\ previousValue = value
    /\ epochBaseline.set /\ flagCell

====
